---- MODULE Spec2Model ----
(***************************************************************************)
(* Model of package dotconfig (github.com/DeanPDX/dotconfig).              *)
(*                                                                         *)
(* FromReader / FromFileName parse a .env style stream into the process    *)
(* environment (os.Setenv) and then fromEnv walks the fields of the target *)
(* struct type T, reading each field's `env` / `default` struct tags,      *)
(* looking the key up with os.LookupEnv and converting the value.          *)
(*                                                                         *)
(* A Go string is modelled as a sequence of characters; each character is  *)
(* a one-symbol TLA+ string.  The process environment is a function from   *)
(* keys (strings) to values (strings) whose domain is the set of keys that *)
(* are present.                                                            *)
(***************************************************************************)
EXTENDS Integers, Sequences, FiniteSets, TLC

VARIABLES
    env,      \* the process environment (os.Setenv / os.LookupEnv)
    env0,     \* the environment as it was when the current call was entered
    method,   \* entry point called: "FromReader" or "FromFileName"
    fileOK,   \* FromFileName only: whether os.Open(name) succeeds
    stream,   \* the lines of the reader (or of the named file)
    T,        \* the type parameter T of the call
    opts,     \* the variadic opts ...DecodeOption the caller passed
    pc,       \* position of the call: idle, scan, fromEnv, fields, done
    lines,    \* lines the bufio.Scanner has not yet returned
    ops,      \* the options struct fromEnv was called with
    i,        \* fromEnv loop index (1-based)
    config,   \* var config T, as the sequence of its field values
    errs,     \* errs.errs of the joinError being built
    visited,  \* for each field, the branch that ended its iteration ("Unvisited" before)
    contrib,  \* for each field, the entries its iteration appended to errs
    ret,      \* the (T, error) pair returned
    again,    \* whether the caller makes the same call a second time
    first,    \* the environment and the result the first of two calls left
    fault,    \* where the reader fails, if it does: a read error or a line too long
    calls     \* two calls of FromReader running at the same time, each with its own locals

vars == <<env, env0, method, fileOK, stream, T, opts, pc, lines, ops, i, config, errs, visited, contrib, ret, again, first, fault, calls>>

-----------------------------------------------------------------------------
(* Characters with a role in the parser.                                   *)
SQ == "'"
DQ == "\""
BS == "\\"
NL == "\n"
SP == " "
HASH == "#"
EQ == "="
COMMA == ","

(* unicode.IsSpace restricted to the characters of the model.              *)
IsSpace(c) == c \in {SP, NL, "\t", "\r"}

-----------------------------------------------------------------------------
(* package strings                                                         *)

HasPrefix(s, p) == Len(s) >= Len(p) /\ SubSeq(s, 1, Len(p)) = p

HasSuffix(s, p) == Len(s) >= Len(p) /\ SubSeq(s, Len(s) - Len(p) + 1, Len(s)) = p

TrimPrefix(s, p) == IF HasPrefix(s, p) THEN SubSeq(s, Len(p) + 1, Len(s)) ELSE s

TrimSuffix(s, p) == IF HasSuffix(s, p) THEN SubSeq(s, 1, Len(s) - Len(p)) ELSE s

(* strings.Index, 0-based as in Go; -1 when sub does not occur.            *)
Index(s, sub) ==
    LET hits == {k \in 0..(Len(s) - Len(sub)) : SubSeq(s, k + 1, k + Len(sub)) = sub}
    IN IF hits = {} THEN -1 ELSE CHOOSE k \in hits : \A h \in hits : k <= h

StringsContains(s, sub) == Index(s, sub) >= 0

RECURSIVE TrimLeftSpace(_)
TrimLeftSpace(s) ==
    IF s # <<>> /\ IsSpace(Head(s)) THEN TrimLeftSpace(Tail(s)) ELSE s

RECURSIVE TrimRightSpace(_)
TrimRightSpace(s) ==
    IF s # <<>> /\ IsSpace(s[Len(s)]) THEN TrimRightSpace(SubSeq(s, 1, Len(s) - 1)) ELSE s

TrimSpace(s) == TrimRightSpace(TrimLeftSpace(s))

(* strings.ReplaceAll: non-overlapping occurrences, left to right: the     *)
(* text up to the next occurrence is copied, then new, and so on from the  *)
(* end of that occurrence.                                                 *)
RECURSIVE ReplaceAll(_, _, _)
ReplaceAll(s, old, new) ==
    IF ~StringsContains(s, old) THEN s
    ELSE SubSeq(s, 1, Index(s, old)) \o new \o
         ReplaceAll(SubSeq(s, Index(s, old) + Len(old) + 1, Len(s)), old, new)

(* strings.Cut: before, after, found.                                      *)
Cut(s, sep) ==
    LET k == Index(s, sep)
    IN IF k >= 0
       THEN [before |-> SubSeq(s, 1, k), after |-> SubSeq(s, k + Len(sep) + 1, Len(s)), found |-> TRUE]
       ELSE [before |-> s, after |-> <<>>, found |-> FALSE]

-----------------------------------------------------------------------------
(* package os: the environment.                                            *)

SetenvAppends(e, key, value) ==
    IF key = <<>> THEN e
    ELSE [k \in DOMAIN e \cup {key} |->
             IF k = key THEN (IF k \in DOMAIN e THEN e[k] ELSE <<>>) \o value ELSE e[k]]

SetenvKeepsExisting(e, key, value) ==
    IF key = <<>> \/ key \in DOMAIN e THEN e
    ELSE [k \in DOMAIN e \cup {key} |-> IF k = key THEN value ELSE e[k]]

(* os.Setenv: an empty key is rejected (EINVAL) and nothing is stored; the *)
(* callers here drop the error.                                            *)
Setenv(e, key, value) ==
    IF key = <<>> THEN e
    ELSE [k \in DOMAIN e \cup {key} |-> IF k = key THEN value ELSE e[k]]

(* os.LookupEnv: value and whether the key is present.                     *)
LookupEnv(e, key) ==
    IF key \in DOMAIN e THEN [value |-> e[key], exists |-> TRUE]
    ELSE [value |-> <<>>, exists |-> FALSE]

-----------------------------------------------------------------------------
(* dotconfig.go: options                                                   *)

ReturnFileIOErrors == "ReturnFileIOErrors"
EnforceStructTags == "EnforceStructTags"
AllowWhitespace == "AllowWhitespace"

(* optsFromVariadic: a flag is set when the option occurs in the list.     *)
optsFromVariadic(list) ==
    [ReturnFileIOErrors |-> \E k \in 1..Len(list) : list[k] = ReturnFileIOErrors,
     EnforceStructTags  |-> \E k \in 1..Len(list) : list[k] = EnforceStructTags,
     AllowWhitespace    |-> \E k \in 1..Len(list) : list[k] = AllowWhitespace]

-----------------------------------------------------------------------------
(* dotconfig.go: the body of the scanner loop of FromReader, for one line  *)
(* returned by scanner.Scan(); the result is the environment afterwards.   *)

(* line[0:strings.Index(line, "=")]                                        *)
LineKey(line) == SubSeq(line, 1, Index(line, <<EQ>>))

(* line[len(key)+1:]                                                       *)
LineRawValue(line) == SubSeq(line, Len(LineKey(line)) + 2, Len(line))

(* value[0:strings.Index(value, " #")] when value contains " #"            *)
StripInlineComment(value) ==
    IF StringsContains(value, <<SP, HASH>>)
    THEN SubSeq(value, 1, Index(value, <<SP, HASH>>))
    ELSE value

(* the single / double quote branches                                      *)
StripQuotes(value) ==
    IF HasPrefix(value, <<SQ>>) THEN TrimPrefix(TrimSuffix(value, <<SQ>>), <<SQ>>)
    ELSE IF HasPrefix(value, <<DQ>>) THEN TrimPrefix(TrimSuffix(value, <<DQ>>), <<DQ>>)
    ELSE value

(* strings.ReplaceAll(value, `\n`, "\n")                                   *)
ExpandNewlines(value) == ReplaceAll(value, <<BS, "n">>, <<NL>>)

LineValue(line) == ExpandNewlines(StripQuotes(StripInlineComment(LineRawValue(line))))

LineIgnoredKeepsComments(line) ==
    Len(line) = 0 \/ ~StringsContains(line, <<EQ>>)

(* the `continue` guard: empty line, comment, or no "="                    *)
LineIgnored(line) ==
    Len(line) = 0 \/ HasPrefix(line, <<HASH>>) \/ ~StringsContains(line, <<EQ>>)

ScanLine(e, text) ==
    LET line == TrimSpace(text)
    IN IF LineIgnored(line) THEN e
       ELSE Setenv(e, LineKey(line), LineValue(line))

(* the whole scanner loop over the lines of a reader                       *)
RECURSIVE ScanAll(_, _)
ScanAll(e, ls) == IF ls = <<>> THEN e ELSE ScanAll(ScanLine(e, Head(ls)), Tail(ls))

-----------------------------------------------------------------------------
(* dotconfig.go (tags): parseTag and tagOptions.Contains                   *)

parseTag(tag) ==
    LET c == Cut(tag, <<COMMA>>) IN [key |-> c.before, tagOpts |-> c.after]

RECURSIVE tagOptionsContains(_, _)
tagOptionsContains(o, optionName) ==
    IF Len(o) = 0 THEN FALSE
    ELSE LET c == Cut(o, <<COMMA>>)
         IN IF TrimSpace(c.before) = optionName THEN TRUE
            ELSE tagOptionsContains(c.after, optionName)

-----------------------------------------------------------------------------
(* package strconv, for the characters of the model.                       *)

Digits == {"0", "1", "2", "3", "4", "5", "6", "7", "8", "9"}

DigitVal(c) ==
    CASE c = "0" -> 0 [] c = "1" -> 1 [] c = "2" -> 2 [] c = "3" -> 3 [] c = "4" -> 4
      [] c = "5" -> 5 [] c = "6" -> 6 [] c = "7" -> 7 [] c = "8" -> 8 [] c = "9" -> 9

AllDigits(s) == Len(s) > 0 /\ \A k \in 1..Len(s) : s[k] \in Digits

RECURSIVE DecimalValue(_)
DecimalValue(s) ==
    IF s = <<>> THEN 0 ELSE 10 * DecimalValue(SubSeq(s, 1, Len(s) - 1)) + DigitVal(s[Len(s)])

(* strconv.ParseBool with the error dropped: false for any other token.    *)
ParseBool(s) ==
    s \in {<<"1">>, <<"t">>, <<"T">>, <<"T", "R", "U", "E">>, <<"t", "r", "u", "e">>, <<"T", "r", "u", "e">>}

(* A 64-bit integer is its bit pattern (two's complement for the signed     *)
(* kinds), written as four 16-bit limbs, least significant first.          *)
LimbBase == 65536
LimbMax == LimbBase - 1
SignLimb == LimbBase \div 2

Uint64Zero == <<0, 0, 0, 0>>
MaxUint64 == <<LimbMax, LimbMax, LimbMax, LimbMax>>
MaxInt64 == <<LimbMax, LimbMax, LimbMax, SignLimb - 1>>
MinInt64 == <<0, 0, 0, SignLimb>>

(* w * m + d in 64 bits, and whether the result left the 64 bits, for      *)
(* m up to 10000 and d below m                                             *)
MulAdd(w, m, d) ==
    LET t1 == w[1] * m + d
        t2 == w[2] * m + t1 \div LimbBase
        t3 == w[3] * m + t2 \div LimbBase
        t4 == w[4] * m + t3 \div LimbBase
    IN [val |-> <<t1 % LimbBase, t2 % LimbBase, t3 % LimbBase, t4 % LimbBase>>,
        over |-> t4 >= LimbBase]

(* the digits one step of ParseDigitsFrom takes: as many iterations of the *)
(* digit loop as a limb has room for                                       *)
StepDigits == 4

Pow10(k) == CASE k = 0 -> 1 [] k = 1 -> 10 [] k = 2 -> 100 [] k = 3 -> 1000 [] OTHER -> 10000

(* the number that up to StepDigits digits write                           *)
StepValue(ds) ==
    LET place(k) == IF k <= Len(ds) THEN DigitVal(ds[k]) * Pow10(Len(ds) - k) ELSE 0
    IN place(1) + place(2) + place(3) + place(4)

(* the iterations of the digit loop of strconv.ParseUint on the digits ds  *)
(* (at most StepDigits of them): n = n*10 + d for each, that is            *)
(* n * 10^Len(ds) + the number ds writes; out of range once the value has  *)
(* left the 64 bits                                                        *)
DigitStep(acc, ds) ==
    [val |-> MulAdd(acc.val, Pow10(Len(ds)), StepValue(ds)).val,
     over |-> MulAdd(acc.val, Pow10(Len(ds)), StepValue(ds)).over]

(* the digit loop of strconv.ParseUint over the digits s, from the value   *)
(* reached so far; it ends at the first value out of range                 *)
RECURSIVE ParseDigitsFrom(_, _)
ParseDigitsFrom(acc, s) ==
    IF acc.over \/ s = <<>> THEN acc
    ELSE IF Len(s) <= StepDigits THEN DigitStep(acc, s)
    ELSE ParseDigitsFrom(DigitStep(acc, SubSeq(s, 1, StepDigits)),
                         SubSeq(s, StepDigits + 1, Len(s)))

(* the digit loop of strconv.ParseUint: the value, and whether it is out   *)
(* of range                                                                *)
ParseDigits(s) == ParseDigitsFrom([val |-> Uint64Zero, over |-> FALSE], s)

(* -x in 64 bits                                                           *)
Negate(w) ==
    LET t1 == (LimbMax - w[1]) + 1
        t2 == (LimbMax - w[2]) + t1 \div LimbBase
        t3 == (LimbMax - w[3]) + t2 \div LimbBase
        t4 == (LimbMax - w[4]) + t3 \div LimbBase
    IN <<t1 % LimbBase, t2 % LimbBase, t3 % LimbBase, t4 % LimbBase>>

(* strconv.ParseUint(s, 10, 64) with the error dropped: 0 on a syntax      *)
(* error, the largest uint64 on a range error.                             *)
ParseUint(s) ==
    IF ~AllDigits(s) THEN Uint64Zero
    ELSE IF ParseDigits(s).over THEN MaxUint64
    ELSE ParseDigits(s).val

(* strconv.ParseInt(s, 10, 64) with the error dropped: an optional sign,   *)
(* then ParseUint on the digits; 0 on a syntax error, the largest or the   *)
(* smallest int64 when the magnitude is beyond the cutoff 1<<63.           *)
ParseInt(s) ==
    LET neg  == HasPrefix(s, <<"-">>)
        body == IF neg \/ HasPrefix(s, <<"+">>) THEN Tail(s) ELSE s
        un   == ParseUint(body)
    IN IF ~AllDigits(body) THEN Uint64Zero
       ELSE IF ~neg /\ un[4] >= SignLimb THEN MaxInt64
       ELSE IF neg /\ un[4] >= SignLimb /\ un # MinInt64 THEN MinInt64
       ELSE IF neg THEN Negate(un) ELSE un

(* A float is num / 10^scale, num not divisible by 10 unless scale = 0.    *)
RECURSIVE NormFloat(_, _)
NormFloat(num, scale) ==
    IF scale > 0 /\ num % 10 = 0 THEN NormFloat(num \div 10, scale - 1)
    ELSE [nan |-> FALSE, num |-> num, scale |-> scale]

FloatZero == [nan |-> FALSE, num |-> 0, scale |-> 0]

FloatNaN == [nan |-> TRUE, num |-> 0, scale |-> 0]

(* strconv.ParseFloat with the error dropped, for decimal literals         *)
(* [+-]digits[.digits] and "nan"; 0 on a syntax error.                     *)
ParseFloat(s) ==
    LET neg   == HasPrefix(s, <<"-">>)
        body  == IF neg \/ HasPrefix(s, <<"+">>) THEN Tail(s) ELSE s
        c     == Cut(body, <<".">>)
        whole == c.before
        frac  == c.after
        okSyn == /\ Len(whole) + Len(frac) > 0
                 /\ \A k \in 1..Len(whole) : whole[k] \in Digits
                 /\ \A k \in 1..Len(frac) : frac[k] \in Digits
        mag   == DecimalValue(whole \o frac)
    IN IF body \in {<<"n", "a", "n">>, <<"N", "a", "N">>, <<"N", "A", "N">>} THEN FloatNaN
       ELSE IF ~okSyn THEN FloatZero
       ELSE NormFloat(IF neg THEN 0 - mag ELSE mag, Len(frac))

-----------------------------------------------------------------------------
(* package reflect: kinds, zero values, and the Set* methods.              *)

BoolKinds == {"bool"}
IntKinds == {"int", "int8", "int16", "int32", "int64"}
UintKinds == {"uint", "uint8", "uint16", "uint32", "uint64", "uintptr"}
FloatKinds == {"float32", "float64"}
StringKinds == {"string"}
NilKinds == {"ptr", "slice", "map", "interface"}

(* Type.Bits() for the integer kinds: int, uint and uintptr are 64 bit.    *)
BitsOf(kind) ==
    CASE kind \in {"int8", "uint8"} -> 8
      [] kind \in {"int16", "uint16"} -> 16
      [] kind \in {"int32", "uint32"} -> 32
      [] OTHER -> 64

TruncateKeeps64(kind, w) == w

(* the low BitsOf(kind) bits of a 64-bit pattern: what an integer field    *)
(* of that kind holds after int8(x), uint16(x), ...                        *)
Truncate(kind, w) ==
    CASE BitsOf(kind) = 8 -> <<w[1] % 256>>
      [] BitsOf(kind) = 16 -> <<w[1]>>
      [] BitsOf(kind) = 32 -> <<w[1], w[2]>>
      [] OTHER -> w

(* the zero value of a field or of a non-struct T                          *)
ZeroOf(kind) ==
    CASE kind \in BoolKinds -> FALSE
      [] kind \in IntKinds \cup UintKinds -> Truncate(kind, Uint64Zero)
      [] kind \in FloatKinds -> FloatZero
      [] kind \in StringKinds -> <<>>
      [] kind \in NilKinds -> "nil"
      [] OTHER -> [re |-> 0, im |-> 0]

(* Value.SetInt / Value.SetUint store the value converted to the field's   *)
(* type, which keeps its low bits.                                         *)
SetInt(kind, x) == Truncate(kind, x)

SetUint(kind, x) == Truncate(kind, x)

-----------------------------------------------------------------------------
(* dotconfig.go: errors                                                    *)

ErrConfigMustBeStruct == "ErrConfigMustBeStruct"
ErrMissingStructTag == "ErrMissingStructTag"
ErrMissingEnvVar == "ErrMissingEnvVar"
ErrMissingRequiredField == "ErrMissingRequiredField"
ErrUnsupportedFieldType == "ErrUnsupportedFieldType"

(* fmt.Errorf("%w: %v", sentinel, arg)                                     *)
Wrapped(sentinel, arg) == [kind |-> "wrapped", is |-> sentinel, arg |-> arg]

Sentinel(name) == [kind |-> "sentinel", is |-> name]

NilError == [kind |-> "nil"]

(* the *fs.PathError of a failed os.Open                                   *)
PathError == [kind |-> "PathError", is |-> "ErrNotExist"]

(* joinerror.go                                                            *)
JoinError(list) == [kind |-> "joinError", errs |-> list]

AddInFront(list, err) == IF err = NilError THEN list ELSE <<err>> \o list

(* joinError.Add: append when non-nil                                      *)
Add(list, err) == IF err = NilError THEN list ELSE Append(list, err)

(* joinError.HasErrors: some entry is non-nil                              *)
HasErrors(list) == \E k \in 1..Len(list) : list[k] # NilError

(* Errors / extractErrors                                                  *)
Errors(err) ==
    IF err = NilError THEN <<>>
    ELSE IF err.kind = "joinError" THEN err.errs
    ELSE <<err>>

(* errors.New(text).Error(): the text of each sentinel                     *)
SentinelText(name) ==
    CASE name = ErrConfigMustBeStruct -> <<"config must be struct">>
      [] name = ErrMissingStructTag -> <<"missing struct tag on field">>
      [] name = ErrMissingEnvVar -> <<"key not present in ENV">>
      [] name = ErrMissingRequiredField -> <<"field must have non-zero value">>
      [] name = ErrUnsupportedFieldType -> <<"unsupported field type">>

(* err.Error() of an entry: fmt.Errorf("%w: %v", sentinel, arg)            *)
ErrorText(err) ==
    IF err.kind = "wrapped" THEN SentinelText(err.is) \o <<":", SP>> \o err.arg
    ELSE SentinelText(err.is)

(* strings.Join                                                            *)
RECURSIVE StringsJoin(_, _)
StringsJoin(elems, sep) ==
    IF elems = <<>> THEN <<>>
    ELSE IF Len(elems) = 1 THEN elems[1]
    ELSE elems[1] \o sep \o StringsJoin(Tail(elems), sep)

joinErrorErrorNoSingleCase(list) ==
    IF Len(list) = 0 THEN <<>>
    ELSE <<"multiple errors:", NL, "-", SP>>
            \o StringsJoin([k \in 1..Len(list) |-> ErrorText(list[k])], <<NL, "-", SP>>)

(* joinError.Error()                                                       *)
joinErrorError(list) ==
    IF Len(list) = 0 THEN <<>>
    ELSE IF Len(list) = 1 THEN ErrorText(list[1])
    ELSE <<"multiple errors:", NL, "-", SP>>
            \o StringsJoin([k \in 1..Len(list) |-> ErrorText(list[k])], <<NL, "-", SP>>)

-----------------------------------------------------------------------------
(* dotconfig.go: fromEnv                                                   *)
(*                                                                         *)
(* A struct type is [kind |-> "struct", fields |-> <<f1, ..., fn>>]; a     *)
(* field is [Name, exported, kind, env, default] with env and default the  *)
(* values of the struct tags ("" when the tag is not there).               *)

NumField(t) == Len(t.fields)

ConvertValueTrimsStrings(kind, envValue) ==
    CASE kind \in BoolKinds -> ParseBool(envValue)
      [] kind \in IntKinds -> SetInt(kind, ParseInt(envValue))
      [] kind \in UintKinds -> SetUint(kind, ParseUint(envValue))
      [] kind \in FloatKinds -> ParseFloat(envValue)
      [] kind \in StringKinds -> TrimSpace(envValue)
      [] OTHER -> ZeroOf(kind)

(* the type switch on fieldType.Type.Kind(): the value the field is set to *)
ConvertValue(kind, envValue) ==
    CASE kind \in BoolKinds -> ParseBool(envValue)
      [] kind \in IntKinds -> SetInt(kind, ParseInt(envValue))
      [] kind \in UintKinds -> SetUint(kind, ParseUint(envValue))
      [] kind \in FloatKinds -> ParseFloat(envValue)
      [] kind \in StringKinds -> envValue
      [] OTHER -> ZeroOf(kind)

Supported(kind) == kind \in BoolKinds \cup IntKinds \cup UintKinds \cup FloatKinds \cup StringKinds

FetchValueDefaultForEmpty(e, o, f) ==
    LET look == LookupEnv(e, parseTag(f.env).key)
        raw  == IF look.exists /\ look.value # <<>> THEN look.value ELSE f.default
    IN IF ~o.AllowWhitespace THEN TrimSpace(raw) ELSE raw

FetchValueAlwaysTrims(e, o, f) ==
    LET look == LookupEnv(e, parseTag(f.env).key)
        raw  == IF look.exists THEN look.value ELSE f.default
    IN TrimSpace(raw)

(* the value after the !keyExists block and the whitespace trimming        *)
FetchValue(e, o, f) ==
    LET look == LookupEnv(e, parseTag(f.env).key)
        raw  == IF look.exists THEN look.value ELSE f.default
    IN IF ~o.AllowWhitespace THEN TrimSpace(raw) ELSE raw

AbsentErrorRequiredFirst(tag) ==
    IF tagOptionsContains(tag.tagOpts, <<"required">>)
    THEN Wrapped(ErrMissingRequiredField, tag.key)
    ELSE IF tagOptionsContains(tag.tagOpts, <<"optional">>) THEN NilError
    ELSE Wrapped(ErrMissingEnvVar, tag.key)

AbsentErrorIgnoresOptional(tag) == Wrapped(ErrMissingEnvVar, tag.key)

(* the !keyExists block when there is no default: the error added, or      *)
(* NilError when the optional modifier skips the field                     *)
AbsentError(tag) ==
    IF tagOptionsContains(tag.tagOpts, <<"optional">>) THEN NilError
    ELSE Wrapped(ErrMissingEnvVar, tag.key)

EmptyErrorNever(tag) == NilError

(* the envValue == "" block: the error added, or NilError                  *)
EmptyError(tag) ==
    IF tagOptionsContains(tag.tagOpts, <<"required">>)
    THEN Wrapped(ErrMissingRequiredField, tag.key)
    ELSE NilError

NoTagErrorAlways(o, f) == Wrapped(ErrMissingStructTag, f.Name)

(* the envTag == "" block: the error added, or NilError                    *)
NoTagError(o, f) ==
    IF o.EnforceStructTags THEN Wrapped(ErrMissingStructTag, f.Name) ELSE NilError

(* Type.Name(): the name of a defined type, "" for an unnamed one         *)
TypeName(kind) == IF kind \in {"ptr", "slice", "map"} THEN <<>> ELSE <<kind>>

SkipsConversionNever(envValue) == FALSE

(* if envValue == "": the value is never given to the type switch          *)
SkipsConversion(envValue) == envValue = <<>>

CanSetAlways(f) == TRUE

(* fieldVal.CanSet(): the field of an addressable struct value can be set  *)
(* exactly when it is exported                                             *)
CanSet(f) == f.exported

(* One iteration of the loop over the fields: the value the field has     *)
(* afterwards, the error added to errs (NilError for none) and the branch  *)
(* that ended the iteration.  envValue is assigned once, after the         *)
(* !keyExists block, and the rest of the iteration works on that value.    *)
decodeField(e, o, f) ==
    LET zero     == ZeroOf(f.kind)
        tag      == parseTag(f.env)
        look     == LookupEnv(e, tag.key)
        out(v, err, how) == [val |-> v, err |-> err, how |-> how]
        withValue(envValue) ==
            IF SkipsConversion(envValue) THEN out(zero, EmptyError(tag), "empty")
            ELSE IF Supported(f.kind)
                 THEN out(ConvertValue(f.kind, envValue), NilError,
                          IF look.exists THEN "set" ELSE "setDefault")
            ELSE out(zero, Wrapped(ErrUnsupportedFieldType, TypeName(f.kind)), "unsupported")
    IN IF ~CanSet(f) THEN out(zero, NilError, "cannotSet")
       ELSE IF f.env = <<>> THEN out(zero, NoTagError(o, f), "noTag")
       ELSE IF ~look.exists /\ f.default = <<>> THEN out(zero, AbsentError(tag), "absent")
       ELSE CHOOSE r \in {withValue(envValue) : envValue \in {FetchValue(e, o, f)}} : TRUE

(* var config T                                                            *)
ZeroConfig(t) ==
    IF t.kind = "struct" THEN [k \in 1..NumField(t) |-> ZeroOf(t.fields[k].kind)]
    ELSE ZeroOf(t.kind)

(* The loop of fromEnv over fields k..NumField(t), from config c and      *)
(* errors l.                                                               *)
RECURSIVE fieldLoop(_, _, _, _, _, _)
fieldLoop(e, o, t, k, c, l) ==
    IF k > NumField(t) THEN [config |-> c, errs |-> l]
    ELSE LET r == decodeField(e, o, t.fields[k])
         IN fieldLoop(e, o, t, k + 1, [c EXCEPT ![k] = r.val], Add(l, r.err))

Panic == [config |-> "panic", err |-> [kind |-> "panic"]]

(* fromEnv[T](opts) as a function of the environment: what it returns, or  *)
(* Panic.                                                                  *)
fromEnv(e, o, t) ==
    IF t.kind = "interface" THEN Panic
    ELSE IF t.kind # "struct"
    THEN [config |-> ZeroConfig(t), err |-> Sentinel(ErrConfigMustBeStruct)]
    ELSE LET r == fieldLoop(e, o, t, 1, ZeroConfig(t), <<>>)
         IN [config |-> r.config,
             err |-> IF HasErrors(r.errs) THEN JoinError(r.errs) ELSE NilError]

(* FromReader[T](r, opts...) as a function of the environment: the         *)
(* environment afterwards and what is returned.                            *)
FromReader(e, r, list, t) ==
    [env |-> ScanAll(e, r), out |-> fromEnv(ScanAll(e, r), optsFromVariadic(list), t)]

-----------------------------------------------------------------------------
(* Inputs of a call.                                                       *)

MaxFields == 2
MaxBody == 2
MaxLines == 2

SeqsUpTo(S, n) == UNION {[1..k -> S] : k \in 0..n}

Field(name, exported, kind, envTag, defaultTag) ==
    [Name |-> <<name>>, exported |-> exported, kind |-> kind, env |-> envTag, default |-> defaultTag]

(* Fields in the shapes the tests and examples declare, over keys X and Y. *)
FieldSpecs ==
    { Field("notExported", FALSE, "string", <<"X">>, <<>>),
      Field("EmptyStructTag", TRUE, "string", <<>>, <<>>),
      Field("hidden", FALSE, "string", <<>>, <<>>),
      Field("StripeSecret", TRUE, "string", <<"X">>, <<>>),
      Field("IsDev", TRUE, "bool", <<"X", COMMA, "optional">>, <<>>),
      Field("MyInt", TRUE, "int", <<"X", COMMA, "required">>, <<>>),
      Field("MySecond", TRUE, "int8", <<"Y", COMMA, SP, "required">>, <<>>),
      Field("MaxBytes", TRUE, "uint", <<"X">>, <<SP, "7">>),
      Field("APIVersion", TRUE, "float64", <<"Y", COMMA, "optional">>, <<>>),
      Field("WelcomeMessage", TRUE, "string", <<"Y", COMMA, "optional">>, <<"H", "i">>),
      Field("UnsupportedType", TRUE, "complex64", <<"X">>, <<>>) }

StructTypes == {[kind |-> "struct", fields |-> fs] : fs \in SeqsUpTo(FieldSpecs, MaxFields)}

NonStructTypes == {[kind |-> k] : k \in {"int", "string", "ptr", "slice", "map", "interface"}}

(* Environments the process may start with.                                *)
XValues == {<<>>, <<SP>>, <<"1">>, <<SP, "a">>}
YValues == {<<"1", ".", "5">>}

StartEnvs ==
    LET only(k, vs) == {[x \in {} |-> <<>>]} \cup {[x \in {k} |-> v] : v \in vs}
    IN {[k \in DOMAIN ex \cup DOMAIN ey |-> IF k \in DOMAIN ex THEN ex[k] ELSE ey[k]] :
            ex \in only(<<"X">>, XValues), ey \in only(<<"Y">>, YValues)}

OptionLists ==
    { <<>>, <<EnforceStructTags>>, <<AllowWhitespace>>,
      <<EnforceStructTags, AllowWhitespace>>,
      <<ReturnFileIOErrors>>, <<ReturnFileIOErrors, EnforceStructTags>> }

(* Assignment lines: [space] K = [quote] body [quote] [spaces #c]          *)
BodyChars == {"a", SP, HASH, BS, "n"}
Trails == {<<>>, <<SP, HASH, "c">>, <<SP, SP, HASH, "c">>}
Quotes == {<<>>, <<SQ>>, <<DQ>>}

AssignmentLines ==
    {lead \o key \o <<EQ>> \o open \o body \o close \o trail :
        lead \in {<<>>, <<SP>>}, key \in {<<"K">>},
        open \in Quotes, close \in Quotes,
        body \in SeqsUpTo(BodyChars, MaxBody),
        trail \in Trails}

(* Lines of the multi-line streams: assignments to two keys, one with an   *)
(* empty key, a comment, a blank line and a line without "=".              *)
ShortLines ==
    { <<"K", EQ, "a">>, <<"K", EQ, "b">>, <<"J", EQ, SQ, "a", SQ>>, <<EQ, "a">>,
      <<HASH, "K", EQ, "c">>, <<>>, <<"K">> }

(* the struct the parsed streams are decoded into                          *)
KJConfig ==
    [kind |-> "struct",
     fields |-> << Field("V", TRUE, "string", <<"K">>, <<>>),
                   Field("W", TRUE, "string", <<"J", COMMA, "optional">>, <<"d">>) >>]

KJEnvs == {[x \in {} |-> <<>>], [x \in {<<"K">>} |-> <<"z">>]}

-----------------------------------------------------------------------------
(* The state machine of one call.                                          *)

NoReturn == [returned |-> FALSE]

NoOptions == optsFromVariadic(<<>>)

(* no second goroutine: one call at a time                                 *)
NoCalls == <<>>

(* the reader delivers every line                                          *)
NoFault == [kind |-> "none", line |-> 0, read |-> 0]

(* the reader fails at line n, after k symbols of that line                *)
ReadError(n, k) == [kind |-> "read", line |-> n, read |-> k]

(* line n is longer than the scanner's buffer                              *)
TooLong(n) == [kind |-> "tooLong", line |-> n, read |-> 0]

(* The lines scanner.Scan() returns before it returns false.  At a line    *)
(* longer than the buffer it returns false at once.  After a read error    *)
(* it hands what it has read of the line, if anything, to the split        *)
(* function as the last, unterminated line, and then returns false.        *)
Tokens(r, f) ==
    CASE f.kind = "tooLong" -> SubSeq(r, 1, f.line - 1)
      [] f.kind = "read" ->
            SubSeq(r, 1, f.line - 1) \o
                (IF f.read > 0 THEN <<SubSeq(r[f.line], 1, f.read)>> ELSE <<>>)
      [] OTHER -> r

NoFirst == [env |-> <<>>, ret |-> NoReturn, made |-> FALSE]

Idle ==
    /\ pc = "idle"
    /\ env0 = env
    /\ lines = <<>>
    /\ ops = NoOptions
    /\ i = 0
    /\ config = <<>>
    /\ errs = <<>>
    /\ visited = <<>>
    /\ contrib = <<>>
    /\ ret = NoReturn
    /\ first = NoFirst

(* Calls that exercise the field decoder: any struct of up to MaxFields    *)
(* fields, or a non-struct T, over the environments StartEnvs.             *)
InitDecode ==
    /\ env \in StartEnvs
    /\ T \in StructTypes \cup NonStructTypes
    /\ opts \in OptionLists
    /\ \/ method = "FromReader" /\ fileOK = TRUE
       \/ method = "FromFileName" /\ fileOK \in BOOLEAN
    /\ stream = <<>>
    /\ again = FALSE
    /\ fault = NoFault
    /\ calls = NoCalls
    /\ Idle

(* Calls that exercise the parser: one assignment line of any shape, or up *)
(* to MaxLines short lines.                                                *)
InitParse ==
    /\ env \in KJEnvs
    /\ T = KJConfig
    /\ opts \in {<<>>, <<AllowWhitespace>>}
    /\ method \in {"FromReader", "FromFileName"}
    /\ fileOK = TRUE
    /\ stream \in {<<l>> : l \in AssignmentLines} \cup SeqsUpTo(ShortLines, MaxLines)
    /\ again = FALSE
    /\ fault = NoFault
    /\ calls = NoCalls
    /\ Idle

(* Callers that read the same stream twice with FromReader.                *)
InitTwice ==
    /\ env \in KJEnvs
    /\ T = KJConfig
    /\ opts \in {<<>>, <<AllowWhitespace>>}
    /\ method = "FromReader"
    /\ fileOK = TRUE
    /\ stream \in {<<l>> : l \in AssignmentLines} \cup SeqsUpTo(ShortLines, MaxLines)
    /\ again = TRUE
    /\ fault = NoFault
    /\ calls = NoCalls
    /\ Idle

(* Calls whose T is no struct, on streams of short lines.                  *)
InitReject ==
    /\ env \in KJEnvs
    /\ T \in NonStructTypes
    /\ opts = <<>>
    /\ method \in {"FromReader", "FromFileName"}
    /\ fileOK = TRUE
    /\ stream \in SeqsUpTo(ShortLines, MaxLines)
    /\ again = FALSE
    /\ fault = NoFault
    /\ calls = NoCalls
    /\ Idle

Init == InitDecode \/ InitParse \/ InitTwice \/ InitReject

(* Integer fields of each width, all with the key N.                       *)
NumericFieldSpecs ==
    { Field("Port", TRUE, k, <<"N">>, <<>>) :
        k \in {"int8", "int16", "int32", "int64", "uint8", "uint16", "uint32", "uint64"} }

(* Texts for N: numbers that fit, numbers too wide for a field, numbers    *)
(* at and beyond the ends of the 64-bit ranges, and text that is no        *)
(* integer.                                                                *)
NumericTexts ==
    { <<"3", "0", "0">>,
      <<"-", "1">>,
      <<"-", "1", "2", "9">>,
      <<"a">>,
      <<"+", "5">>,
      <<"1", ".", "5">>,
      <<"7", "0", "0", "0", "0">>,
      <<"4", "2", "9", "4", "9", "6", "7", "2", "9", "6">>,
      <<"9", "2", "2", "3", "3", "7", "2", "0", "3", "6", "8", "5", "4", "7", "7", "5", "8", "0", "7">>,
      <<"9", "2", "2", "3", "3", "7", "2", "0", "3", "6", "8", "5", "4", "7", "7", "5", "8", "0", "8">>,
      <<"-", "9", "2", "2", "3", "3", "7", "2", "0", "3", "6", "8", "5", "4", "7", "7", "5", "8", "0", "8">>,
      <<"-", "9", "2", "2", "3", "3", "7", "2", "0", "3", "6", "8", "5", "4", "7", "7", "5", "8", "0", "9">>,
      <<"1", "8", "4", "4", "6", "7", "4", "4", "0", "7", "3", "7", "0", "9", "5", "5", "1", "6", "1", "5">>,
      <<"1", "8", "4", "4", "6", "7", "4", "4", "0", "7", "3", "7", "0", "9", "5", "5", "1", "6", "1", "6">> }

(* Calls that decode integer fields from N, which the store holds before   *)
(* the call or the stream assigns.                                         *)
InitNumeric ==
    /\ \E v \in NumericTexts :
          \/ env = [x \in {<<"N">>} |-> v] /\ stream = <<>>
          \/ env = [x \in {} |-> <<>>] /\ stream = << <<"N", EQ>> \o v >>
    /\ T \in {[kind |-> "struct", fields |-> fs] : fs \in SeqsUpTo(NumericFieldSpecs, MaxFields)}
    /\ opts = <<>>
    /\ method \in {"FromReader", "FromFileName"}
    /\ fileOK = TRUE
    /\ again \in BOOLEAN
    /\ fault = NoFault
    /\ calls = NoCalls
    /\ Idle

(* FromReader is entered: the scanner is created over r.                   *)
AfterEnterChecksType(t) == IF t.kind = "struct" THEN "scan" ELSE "fromEnv"

(* what FromReader does first: it reads the stream, whatever T is          *)
AfterEnter(t) == "scan"

FromReaderEnter ==
    /\ pc = "idle"
    /\ method = "FromReader"
    /\ pc' = AfterEnter(T)
    /\ lines' = Tokens(stream, fault)
    /\ UNCHANGED <<env, env0, method, fileOK, stream, T, opts, ops, i, config, errs, visited, contrib, ret>>
    /\ UNCHANGED <<again, first, fault, calls>>

(* the opts FromReader receives: FromFileName calls FromReader[T](file)    *)
ReaderOpts == IF method = "FromFileName" THEN <<>> ELSE opts

FileErrorReturnedAlways(o) == TRUE

FileErrorReturnedNever(o) == FALSE

(* FromFileName, err != nil: whether the error of os.Open is returned      *)
FileErrorReturned(o) == o.ReturnFileIOErrors

(* FromFileName is entered: os.Open, then the error branch or FromReader.  *)
FromFileNameEnter ==
    /\ pc = "idle"
    /\ method = "FromFileName"
    /\ IF fileOK
       THEN /\ pc' = "scan"
            /\ lines' = Tokens(stream, fault)
            /\ UNCHANGED <<ops, ret>>
       ELSE /\ ops' = optsFromVariadic(opts)
            /\ IF FileErrorReturned(ops')
               THEN pc' = "done" /\ ret' = [config |-> ZeroConfig(T), err |-> PathError]
               ELSE pc' = "fromEnv" /\ ret' = ret
            /\ lines' = lines
    /\ UNCHANGED <<env, env0, method, fileOK, stream, T, opts, i, config, errs, visited, contrib>>
    /\ UNCHANGED <<again, first, fault, calls>>

(* one iteration of for scanner.Scan() { ... }                             *)
Scan ==
    /\ pc = "scan"
    /\ lines # <<>>
    /\ env' = ScanLine(env, Head(lines))
    /\ lines' = Tail(lines)
    /\ UNCHANGED <<env0, method, fileOK, stream, T, opts, pc, ops, i, config, errs, visited, contrib, ret>>
    /\ UNCHANGED <<again, first, fault, calls>>

(* scanner.Scan() returns false: return fromEnv[T](optsFromVariadic(opts)) *)
ScanDone ==
    /\ pc = "scan"
    /\ lines = <<>>
    /\ ops' = optsFromVariadic(ReaderOpts)
    /\ pc' = "fromEnv"
    /\ UNCHANGED <<env, env0, method, fileOK, stream, T, opts, lines, i, config, errs, visited, contrib, ret>>
    /\ UNCHANGED <<again, first, fault, calls>>

(* fromEnv up to the loop: var config T, the Kind check.  reflect.TypeOf   *)
(* of a nil interface value is nil, so ct.Kind() panics for an interface T.*)
fromEnvEnter ==
    /\ pc = "fromEnv"
    /\ CASE T.kind = "interface" ->
              /\ pc' = "panic"
              /\ UNCHANGED <<i, config, errs, visited, contrib, ret>>
         [] T.kind \notin {"interface", "struct"} ->
              /\ pc' = "done"
              /\ ret' = [config |-> ZeroConfig(T), err |-> Sentinel(ErrConfigMustBeStruct)]
              /\ UNCHANGED <<i, config, errs, visited, contrib>>
         [] OTHER ->
              /\ pc' = "fields"
              /\ i' = 1
              /\ config' = ZeroConfig(T)
              /\ errs' = <<>>
              /\ visited' = [k \in 1..NumField(T) |-> "Unvisited"]
              /\ contrib' = [k \in 1..NumField(T) |-> <<>>]
              /\ ret' = ret
    /\ UNCHANGED <<env, env0, method, fileOK, stream, T, opts, lines, ops>>
    /\ UNCHANGED <<again, first, fault, calls>>

NextFieldSkipsOne(idx, r) == idx + 2

NextFieldStopOnError(idx, r) == IF r.err # NilError THEN NumField(T) + 1 ELSE idx + 1

(* where the loop goes after field idx: always the next field              *)
NextField(idx, r) == idx + 1

(* one iteration of for i := 0; i < ct.NumField(); i++ { ... }             *)
DecodeField ==
    /\ pc = "fields"
    /\ i <= NumField(T)
    /\ LET r == decodeField(env, ops, T.fields[i])
       IN /\ config' = [config EXCEPT ![i] = r.val]
          /\ errs' = Add(errs, r.err)
          /\ visited' = [visited EXCEPT ![i] = r.how]
          /\ contrib' = [contrib EXCEPT ![i] = SubSeq(errs', Len(errs) + 1, Len(errs'))]
          /\ i' = NextField(i, r)
    /\ UNCHANGED <<env, env0, method, fileOK, stream, T, opts, pc, lines, ops, ret>>
    /\ UNCHANGED <<again, first, fault, calls>>

(* the loop is over: return config, errs or config, nil                    *)
fromEnvReturn ==
    /\ pc = "fields"
    /\ i > NumField(T)
    /\ pc' = "done"
    /\ ret' = [config |-> config, err |-> IF HasErrors(errs) THEN JoinError(errs) ELSE NilError]
    /\ UNCHANGED <<env, env0, method, fileOK, stream, T, opts, lines, ops, i, config, errs, visited, contrib>>
    /\ UNCHANGED <<again, first, fault, calls>>

(* the caller makes the same call again, on the environment the first     *)
(* call left                                                               *)
CallAgain ==
    /\ pc = "done"
    /\ again
    /\ ~first.made
    /\ first' = [env |-> env, ret |-> ret, made |-> TRUE]
    /\ pc' = "idle"
    /\ env0' = env
    /\ lines' = <<>>
    /\ ops' = NoOptions
    /\ i' = 0
    /\ config' = <<>>
    /\ errs' = <<>>
    /\ visited' = <<>>
    /\ contrib' = <<>>
    /\ ret' = NoReturn
    /\ UNCHANGED <<env, method, fileOK, stream, T, opts, again, fault, calls>>

Next ==
    \/ FromReaderEnter
    \/ FromFileNameEnter
    \/ Scan
    \/ ScanDone
    \/ fromEnvEnter
    \/ DecodeField
    \/ fromEnvReturn
    \/ CallAgain

Spec == Init /\ [][Next]_vars

(* what every step of a call changes: where the call is, the field index  *)
(* or the lines still to read                                              *)
progress == <<pc, i, lines>>

(* Calls on structs of one field of each outcome: skipped, taken from the  *)
(* store or from the default, failing.                                     *)
FairFieldSpecs ==
    { f \in FieldSpecs : f.Name \in {<<"notExported">>, <<"MyInt">>, <<"WelcomeMessage">>,
                                      <<"UnsupportedType">>} }

InitFair ==
    /\ env \in {[x \in {} |-> <<>>],
                [x \in {<<"X">>, <<"Y">>} |-> IF x = <<"X">> THEN <<"1">> ELSE <<"1", ".", "5">>]}
    /\ T \in {[kind |-> "struct", fields |-> fs] : fs \in SeqsUpTo(FairFieldSpecs, MaxFields)}
    /\ opts = <<>>
    /\ method \in {"FromReader", "FromFileName"}
    /\ fileOK \in BOOLEAN
    /\ stream \in SeqsUpTo({<<"X", EQ, "2">>}, 1)
    /\ again \in BOOLEAN
    /\ fault = NoFault
    /\ calls = NoCalls
    /\ Idle

(* the calls of InitFair, each running on until it returns: a call is a    *)
(* sequential program, so a step that can be taken is taken                *)
SpecFair == InitFair /\ [][Next]_vars /\ WF_progress(Next)

SpecNumeric == InitNumeric /\ [][Next]_vars

(* Calls whose reader fails: at some line of the stream the read returns   *)
(* an error, after any number of the line's symbols, or the line is longer *)
(* than the buffer.                                                        *)
FaultLines ==
    { <<"K", EQ, "a", "b">>, <<"K", EQ, "b">>, <<"J", EQ, SQ, "a", SQ>>, <<HASH, "c">> }

Faults(r) ==
    {TooLong(n) : n \in 1..Len(r)} \cup
    UNION {{ReadError(n, k) : k \in 0..Len(r[n])} : n \in 1..Len(r)}

InitFault ==
    /\ env \in KJEnvs
    /\ T = KJConfig
    /\ opts = <<>>
    /\ method \in {"FromReader", "FromFileName"}
    /\ fileOK = TRUE
    /\ stream \in SeqsUpTo(FaultLines, MaxLines) \ {<<>>}
    /\ fault \in Faults(stream)
    /\ again \in BOOLEAN
    /\ calls = NoCalls
    /\ Idle

SpecFault == InitFault /\ [][Next]_vars

-----------------------------------------------------------------------------
(* Two goroutines that call FromReader[T] at the same time.  os.Setenv and *)
(* os.LookupEnv are each atomic (the environment has its own lock); a call *)
(* takes no lock of its own, so the two calls interleave at every Setenv   *)
(* and every LookupEnv.  Each call has its own scanner, config and errs;   *)
(* the environment is the one of the process.                              *)
Callers == {1, 2}

Other(p) == IF p = 1 THEN 2 ELSE 1

IdleCall(r) ==
    [pc |-> "idle", stream |-> r, lines |-> <<>>, i |-> 0, config |-> <<>>, errs |-> <<>>,
     ret |-> NoReturn, alone |-> TRUE]

(* call p is between its entry and its return                              *)
Running(p) == calls[p].pc \in {"scan", "fields"}

(* the variables of the single call, which stay as they are                *)
single ==
    <<env0, method, fileOK, stream, T, opts, pc, lines, ops, i, config, errs, visited,
      contrib, ret, again, first, fault>>

BlockedWhileOtherRuns(p) == Running(Other(p))

(* whether a step of call p has to wait for the other call: FromReader     *)
(* and fromEnv take no lock                                                *)
Blocked(p) == FALSE

(* streams of up to MaxLines lines, one of which assigns v to K             *)
RaceStreams(v) ==
    { r \in SeqsUpTo({<<"K", EQ, v>>, <<"J", EQ, SQ, "a", SQ>>}, MaxLines) :
        Cardinality({k \in 1..Len(r) : r[k] = <<"K", EQ, v>>}) = 1 }

InitRace ==
    /\ env \in KJEnvs
    /\ T = KJConfig
    /\ opts = <<>>
    /\ method = "FromReader"
    /\ fileOK = TRUE
    /\ stream = <<>>
    /\ again = FALSE
    /\ fault = NoFault
    /\ Idle
    /\ calls \in {[p \in Callers |-> IdleCall(IF p = 1 THEN r1 ELSE r2)] :
                    r1 \in RaceStreams("a"), r2 \in RaceStreams("b")}

(* call p is entered; alone records whether the two calls have run one     *)
(* after the other so far                                                  *)
RaceEnter(p) ==
    /\ calls[p].pc = "idle"
    /\ calls' = [q \in Callers |->
                    IF q = p
                    THEN [calls[p] EXCEPT !.pc = "scan", !.lines = calls[p].stream,
                                          !.alone = ~Running(Other(p))]
                    ELSE [calls[q] EXCEPT !.alone = calls[q].alone /\ ~Running(q)]]
    /\ UNCHANGED <<env, single>>

(* one iteration of the scanner loop of call p                             *)
RaceScan(p) ==
    /\ calls[p].pc = "scan"
    /\ calls[p].lines # <<>>
    /\ ~Blocked(p)
    /\ env' = ScanLine(env, Head(calls[p].lines))
    /\ calls' = [calls EXCEPT ![p].lines = Tail(calls[p].lines)]
    /\ UNCHANGED single

(* the scanner of call p is at its end: fromEnv up to its loop             *)
RaceScanDone(p) ==
    /\ calls[p].pc = "scan"
    /\ calls[p].lines = <<>>
    /\ ~Blocked(p)
    /\ calls' = [calls EXCEPT ![p].pc = "fields", ![p].i = 1,
                              ![p].config = ZeroConfig(T), ![p].errs = <<>>]
    /\ UNCHANGED <<env, single>>

(* one iteration of the field loop of call p                               *)
RaceDecodeField(p) ==
    /\ calls[p].pc = "fields"
    /\ calls[p].i <= NumField(T)
    /\ ~Blocked(p)
    /\ LET r == decodeField(env, NoOptions, T.fields[calls[p].i])
       IN calls' = [calls EXCEPT ![p].config = [calls[p].config EXCEPT ![calls[p].i] = r.val],
                                 ![p].errs = Add(calls[p].errs, r.err),
                                 ![p].i = calls[p].i + 1]
    /\ UNCHANGED <<env, single>>

(* call p returns config, errs or config, nil                              *)
RaceReturn(p) ==
    /\ calls[p].pc = "fields"
    /\ calls[p].i > NumField(T)
    /\ ~Blocked(p)
    /\ calls' = [calls EXCEPT ![p].pc = "done",
                              ![p].ret = [config |-> calls[p].config,
                                          err |-> IF HasErrors(calls[p].errs)
                                                  THEN JoinError(calls[p].errs)
                                                  ELSE NilError]]
    /\ UNCHANGED <<env, single>>

RaceStep(p) ==
    \/ RaceScan(p)
    \/ RaceScanDone(p)
    \/ RaceDecodeField(p)
    \/ RaceReturn(p)

NextRace == \E p \in Callers : RaceEnter(p) \/ RaceStep(p)

SpecRace == InitRace /\ [][NextRace]_vars

-----------------------------------------------------------------------------
(* Vocabulary of the properties: what the declaration of field k of T and  *)
(* the store say, independently of the decoding loop.                      *)

FieldIdx == IF T.kind = "struct" THEN 1..NumField(T) ELSE {}

(* fromEnv returned from its loop (not from the Kind check, and not the    *)
(* file error of FromFileName)                                             *)
Decoded == pc = "done" /\ T.kind = "struct" /\ i > NumField(T)

(* the loop has finished the iteration of field k                          *)
Visited(k) == pc \in {"fields", "done"} /\ k \in FieldIdx /\ k < i

Settable(k) == T.fields[k].exported
HasKey(k) == T.fields[k].env # <<>>
KeyOf(k) == parseTag(T.fields[k].env).key
HasModifier(k, m) == tagOptionsContains(parseTag(T.fields[k].env).tagOpts, <<m>>)
HasDefault(k) == T.fields[k].default # <<>>
Present(k) == KeyOf(k) \in DOMAIN env
Trimmed(v) == IF ops.AllowWhitespace THEN v ELSE TrimSpace(v)
StoredValue(k) == Trimmed(env[KeyOf(k)])
DefaultValue(k) == Trimmed(T.fields[k].default)
KindOf(k) == T.fields[k].kind
ZeroField(k) == ZeroOf(KindOf(k))

(* the four ways a field fails                                             *)
FailsMissingTag(k) == Settable(k) /\ ~HasKey(k) /\ ops.EnforceStructTags
FailsMissingKey(k) ==
    Settable(k) /\ HasKey(k) /\ ~Present(k) /\ ~HasDefault(k) /\ ~HasModifier(k, "optional")
ResolvedValue(k) == IF Present(k) THEN StoredValue(k) ELSE DefaultValue(k)
Resolves(k) == Settable(k) /\ HasKey(k) /\ (Present(k) \/ HasDefault(k))
FailsRequiredEmpty(k) == Resolves(k) /\ ResolvedValue(k) = <<>> /\ HasModifier(k, "required")
FailsUnsupported(k) == Resolves(k) /\ ResolvedValue(k) # <<>> /\ ~Supported(KindOf(k))
Fails(k) == FailsMissingTag(k) \/ FailsMissingKey(k) \/ FailsRequiredEmpty(k) \/ FailsUnsupported(k)

(* the error a failing field is to report                                  *)
ErrorOf(k) ==
    CASE FailsMissingTag(k) -> Wrapped(ErrMissingStructTag, T.fields[k].Name)
      [] FailsMissingKey(k) -> Wrapped(ErrMissingEnvVar, KeyOf(k))
      [] FailsRequiredEmpty(k) -> Wrapped(ErrMissingRequiredField, KeyOf(k))
      [] FailsUnsupported(k) -> Wrapped(ErrUnsupportedFieldType, <<KindOf(k)>>)
      [] OTHER -> NilError

(* field k has a key that is in the store with a non-empty value, and a    *)
(* kind the decoder converts                                               *)
Populatable(k) ==
    Settable(k) /\ HasKey(k) /\ Present(k) /\ StoredValue(k) # <<>> /\ Supported(KindOf(k))

(* the value of kind `kind` that the text v denotes: strings verbatim,     *)
(* booleans by their token, numbers by their decimal value                 *)
Denotes(val, kind, v) ==
    CASE kind \in StringKinds -> val = v
      [] kind \in BoolKinds -> val \in BOOLEAN /\ (val <=> ParseBool(v))
      [] kind \in IntKinds \cup UintKinds ->
            /\ val \in Seq(0..LimbMax)
            /\ (AllDigits(v) /\ Len(v) <= 4 /\ BitsOf(kind) = 64) =>
                   val = <<DecimalValue(v), 0, 0, 0>>
      [] kind \in FloatKinds -> val \in [nan : BOOLEAN, num : Int, scale : Nat]
      [] OTHER -> FALSE

-----------------------------------------------------------------------------
(* C1: a field that fails never stops the pass.  When the call has         *)
(* returned from the loop and some field i failed, every later field j > i *)
(* whose key is in the store with a non-empty value holds the value that   *)
(* text denotes, and every later failing field has its own error among the *)
(* errors returned.                                                        *)
C1_ErrorsNeverStopThePass ==
    Decoded =>
        \A a \in FieldIdx : \A b \in FieldIdx :
            (a < b /\ Fails(a)) =>
                /\ Populatable(b) => Denotes(ret.config[b], KindOf(b), StoredValue(b))
                /\ Populatable(b) /\ KindOf(b) \in StringKinds => ret.config[b] # <<>>
                /\ Fails(b) => contrib[b] = <<ErrorOf(b)>>
                /\ Fails(b) => \E n \in 1..Len(Errors(ret.err)) : Errors(ret.err)[n] = ErrorOf(b)

C1_Witness ==
    /\ Decoded
    /\ \E a \in FieldIdx : \E b \in FieldIdx :
          a < b /\ Fails(a) /\ Populatable(b) /\ ret.config[b] # ZeroField(b)

(* C2: the list Errors(err) of a decode holds exactly the errors of the    *)
(* failing fields, one each, in declaration order, and err is nil exactly  *)
(* when no field failed.                                                   *)
RECURSIVE ErrorsOfFields(_)
ErrorsOfFields(n) ==
    IF n = 0 THEN <<>>
    ELSE IF Fails(n) THEN Append(ErrorsOfFields(n - 1), ErrorOf(n))
    ELSE ErrorsOfFields(n - 1)

C2_OneErrorPerFailedField ==
    Decoded =>
        /\ Errors(ret.err) = ErrorsOfFields(NumField(T))
        /\ (ret.err = NilError) <=> (\A k \in FieldIdx : ~Fails(k))
        /\ \A k \in FieldIdx : Len(contrib[k]) = IF Fails(k) THEN 1 ELSE 0

C2_Witness ==
    /\ Decoded
    /\ Len(Errors(ret.err)) = 2
    /\ Errors(ret.err)[1].is # Errors(ret.err)[2].is
    /\ Errors(ret.err) = <<ErrorOf(1), ErrorOf(2)>>

(* C3: options passed to FromFileName take effect whether or not the file  *)
(* can be opened: on a readable file the call returns what FromReader      *)
(* returns for the file's contents and the same options; and with          *)
(* EnforceStructTags alone a struct of one untagged exported field yields  *)
(* exactly one ErrMissingStructTag error, file or no file.                 *)
OneUntaggedField ==
    /\ T.kind = "struct"
    /\ NumField(T) = 1
    /\ T.fields[1].exported
    /\ T.fields[1].env = <<>>

C3_FileNameHonoursOptions ==
    /\ (pc \in {"done", "panic"} /\ method = "FromFileName" /\ fileOK) =>
            /\ env = FromReader(env0, stream, opts, T).env
            /\ (IF pc = "panic" THEN Panic ELSE ret) = FromReader(env0, stream, opts, T).out
    /\ (pc = "done" /\ method = "FromFileName" /\ opts = <<EnforceStructTags>> /\ OneUntaggedField) =>
            Errors(ret.err) = <<Wrapped(ErrMissingStructTag, T.fields[1].Name)>>

-----------------------------------------------------------------------------
(* C4: for an assignment line KEY=value, with value unquoted or enclosed   *)
(* in single or double quotes, the store afterwards maps KEY to the value  *)
(* without its quotes and with every backslash-n replaced by a newline.    *)
(* An unquoted value is taken to end before trailing white space or a      *)
(* trailing comment.                                                       *)
ScanFinished == pc \in {"fromEnv", "fields", "done"}

UnquotedValue(body) ==
    /\ ~StringsContains(body, <<SP, HASH>>)
    /\ body = TrimRightSpace(body)
    /\ ~HasPrefix(body, <<SQ>>)
    /\ ~HasPrefix(body, <<DQ>>)

C4_StoredValue ==
    \A lead \in {<<>>, <<SP>>} : \A q \in Quotes : \A body \in SeqsUpTo(BodyChars, MaxBody) :
        ( /\ ScanFinished
          /\ stream = << lead \o <<"K", EQ>> \o q \o body \o q >>
          /\ q = <<>> => UnquotedValue(body) ) =>
            /\ <<"K">> \in DOMAIN env
            /\ env[<<"K">>] = ReplaceAll(body, <<BS, "n">>, <<NL>>)

-----------------------------------------------------------------------------
(* C5: a settable field whose key is absent from the store, with no        *)
(* default literal and no optional modifier, contributes exactly one       *)
(* ErrMissingEnvVar error naming the key and keeps its zero value, also    *)
(* when it carries the required modifier.                                  *)
AbsentNoEscape(k) ==
    Settable(k) /\ HasKey(k) /\ ~Present(k) /\ ~HasDefault(k) /\ ~HasModifier(k, "optional")

C5_AbsentKeyIsMissingEnvVar ==
    \A k \in FieldIdx :
        (Visited(k) /\ AbsentNoEscape(k)) =>
            /\ contrib[k] = <<Wrapped(ErrMissingEnvVar, KeyOf(k))>>
            /\ config[k] = ZeroField(k)
            /\ pc = "done" => ret.config[k] = ZeroField(k)

C5_Witness ==
    \E k \in FieldIdx :
        /\ pc = "done" /\ Visited(k) /\ AbsentNoEscape(k) /\ HasModifier(k, "required")
        /\ Len(Errors(ret.err)) = 1

(* C6 as claimed: every field with the optional modifier whose key is      *)
(* absent from the store keeps its zero value and contributes no error.    *)
C6_OptionalAbsentKeepsZero ==
    \A k \in FieldIdx :
        (Visited(k) /\ HasKey(k) /\ HasModifier(k, "optional") /\ ~Present(k)) =>
            /\ contrib[k] = <<>>
            /\ config[k] = ZeroField(k)

(* C6 as amended: a field with the optional modifier and no default        *)
(* literal whose key is absent from the store keeps its zero value and     *)
(* contributes no error.                                                   *)
C6_OptionalAbsentNoDefaultKeepsZero ==
    \A k \in FieldIdx :
        (Visited(k) /\ HasKey(k) /\ HasModifier(k, "optional") /\ ~HasDefault(k) /\ ~Present(k)) =>
            /\ contrib[k] = <<>>
            /\ config[k] = ZeroField(k)
            /\ pc = "done" => ret.config[k] = ZeroField(k)

C6_Witness ==
    \E k \in FieldIdx :
        /\ pc = "done" /\ Visited(k) /\ Settable(k) /\ HasKey(k)
        /\ HasModifier(k, "optional") /\ ~HasDefault(k) /\ ~Present(k)
        /\ ret.err = NilError

(* C7: a settable field with the required modifier whose key is in the     *)
(* store with a value that is empty after the trimming the options select  *)
(* contributes exactly one ErrMissingRequiredField error and keeps its     *)
(* zero value.                                                             *)
RequiredPresentEmpty(k) ==
    Settable(k) /\ HasKey(k) /\ HasModifier(k, "required") /\ Present(k) /\ StoredValue(k) = <<>>

C7_RequiredEmptyIsError ==
    \A k \in FieldIdx :
        (Visited(k) /\ RequiredPresentEmpty(k)) =>
            /\ contrib[k] = <<Wrapped(ErrMissingRequiredField, KeyOf(k))>>
            /\ config[k] = ZeroField(k)
            /\ pc = "done" => ret.config[k] = ZeroField(k)

C7_Witness ==
    \E k \in FieldIdx :
        /\ pc = "done" /\ Visited(k) /\ RequiredPresentEmpty(k)
        /\ env[KeyOf(k)] # <<>>
        /\ Len(Errors(ret.err)) = 1

(* C8: the default literal of a settable field is the text its value is    *)
(* taken from exactly when the key is absent from the store; when the key  *)
(* is present the stored text is used, and a stored empty text leaves the  *)
(* field at its zero value.                                                *)
ValueFromText(kind, v) == IF v = <<>> THEN ZeroOf(kind) ELSE ConvertValue(kind, v)

WithDefault(k) == Settable(k) /\ HasKey(k) /\ HasDefault(k) /\ Supported(KindOf(k))

C8_DefaultOnlyWhenAbsent ==
    \A k \in FieldIdx :
        (Visited(k) /\ WithDefault(k)) =>
            /\ ~Present(k) => config[k] = ValueFromText(KindOf(k), DefaultValue(k))
            /\ Present(k) => config[k] = ValueFromText(KindOf(k), StoredValue(k))
            /\ Present(k) /\ StoredValue(k) = <<>> => config[k] = ZeroField(k)
            /\ contrib[k] = <<>>

C8_Witness ==
    \E k \in FieldIdx :
        /\ pc = "done" /\ Visited(k) /\ WithDefault(k)
        /\ Present(k) /\ env[KeyOf(k)] = <<>>
        /\ ValueFromText(KindOf(k), DefaultValue(k)) # ZeroField(k)
        /\ ret.config[k] = ZeroField(k)

(* C9 as claimed: every settable field whose declared key is in the store  *)
(* with a non-empty trimmed value is set to the value of its type that the *)
(* text denotes and contributes no error.                                  *)
PresentNonEmpty(k) == Settable(k) /\ HasKey(k) /\ Present(k) /\ StoredValue(k) # <<>>

C9_PresentValueDecodes ==
    \A k \in FieldIdx :
        (Visited(k) /\ PresentNonEmpty(k)) =>
            /\ contrib[k] = <<>>
            /\ Denotes(config[k], KindOf(k), StoredValue(k))

(* C9 as amended: ... of a kind the decoder converts (bool, the integer    *)
(* and unsigned kinds, the float kinds, string) ...                        *)
C9_PresentSupportedValueDecodes ==
    \A k \in FieldIdx :
        (Visited(k) /\ PresentNonEmpty(k) /\ Supported(KindOf(k))) =>
            /\ contrib[k] = <<>>
            /\ Denotes(config[k], KindOf(k), StoredValue(k))
            /\ pc = "done" => ret.config[k] = config[k]

C9_Witness ==
    \E k \in FieldIdx :
        /\ pc = "done" /\ Visited(k) /\ PresentNonEmpty(k)
        /\ KindOf(k) \in StringKinds
        /\ StoredValue(k) # TrimSpace(StoredValue(k))
        /\ ret.config[k] = env[KeyOf(k)]
        /\ ret.err = NilError

(* C10: for a target type that is not a struct, decoding returns exactly   *)
(* ErrConfigMustBeStruct with the zero value of the type, visits no field  *)
(* and collects no field errors.                                           *)
DecodeEntered == pc \in {"fields", "done", "panic"} /\ ~(pc = "done" /\ ret.err = PathError)

C10_NonStructIsRejected ==
    (T.kind # "struct" /\ DecodeEntered) =>
        /\ pc = "done"
        /\ ret = [config |-> ZeroOf(T.kind), err |-> Sentinel(ErrConfigMustBeStruct)]
        /\ Errors(ret.err) = <<Sentinel(ErrConfigMustBeStruct)>>
        /\ visited = <<>>
        /\ errs = <<>>

-----------------------------------------------------------------------------
(* C11: when the file cannot be opened and ReturnFileIOErrors is among the *)
(* options, FromFileName returns the error of os.Open itself, which is     *)
(* os.ErrNotExist for a missing file, together with the zero-valued        *)
(* record; it decodes nothing and leaves the store as it was.              *)
OpenFailsFlagSet ==
    /\ method = "FromFileName"
    /\ ~fileOK
    /\ \E k \in DOMAIN opts : opts[k] = ReturnFileIOErrors

NothingDecoded == i = 0 /\ visited = <<>> /\ config = <<>> /\ errs = <<>>

C11_OpenErrorIsReturned ==
    OpenFailsFlagSet =>
        /\ pc \in {"idle", "done"}
        /\ env = env0
        /\ NothingDecoded
        /\ pc = "done" =>
              /\ ret.err = PathError
              /\ ret.err.is = "ErrNotExist"
              /\ ret.config = (IF T.kind = "struct"
                               THEN [k \in 1..NumField(T) |-> ZeroOf(T.fields[k].kind)]
                               ELSE ZeroOf(T.kind))

C11_Witness ==
    /\ OpenFailsFlagSet
    /\ pc = "done"
    /\ T.kind = "struct"
    /\ NumField(T) = 2
    /\ \A k \in FieldIdx : Settable(k) /\ HasKey(k) /\ Present(k) /\ StoredValue(k) # <<>>

(* C12: when the file cannot be opened and ReturnFileIOErrors is not among *)
(* the options, FromFileName reports no file error and leaves the store    *)
(* as it was, and returns the record and the errors FromReader returns for *)
(* an empty stream and the same options.                                   *)
OpenFailsFlagNotSet ==
    /\ method = "FromFileName"
    /\ ~fileOK
    /\ \A k \in DOMAIN opts : opts[k] # ReturnFileIOErrors

C12_MissingFileIsEmptyStream ==
    OpenFailsFlagNotSet =>
        /\ env = env0
        /\ pc = "done" =>
              /\ ret.err # PathError
              /\ ret = FromReader(env0, <<>>, opts, T).out
        /\ pc = "panic" => FromReader(env0, <<>>, opts, T).out = Panic

C12_Witness ==
    /\ OpenFailsFlagNotSet
    /\ pc = "done"
    /\ opts = <<EnforceStructTags, AllowWhitespace>>
    /\ Len(Errors(ret.err)) = 2
    /\ ret = FromReader(env0, <<>>, opts, T).out

-----------------------------------------------------------------------------
(* C13: parsing is idempotent: FromReader run a second time on the same    *)
(* stream leaves the store as the first run left it, and the second run    *)
(* returns the record and the errors the first run returned.               *)
SecondCallReturned == first.made /\ pc = "done" /\ method = "FromReader"

C13_ParsingIsIdempotent ==
    SecondCallReturned =>
        /\ env = first.env
        /\ ret = first.ret

C13_Witness ==
    /\ SecondCallReturned
    /\ stream = << <<"K", EQ, "a">>, <<"K", EQ, "b">> >>
    /\ env[<<"K">>] = <<"b">>
    /\ ret.config[1] = <<"b">>
    /\ ret.err = NilError

-----------------------------------------------------------------------------
(* C14: last writer wins: every assignment line upserts its key and value  *)
(* into the store, over a value the store held before and over the value   *)
(* of an earlier line with the same key; after FromReader the store holds, *)
(* for each assigned key, the value of the last line that assigns it.      *)
IsAssignmentLine(text) ==
    LET l == TrimSpace(text)
    IN l # <<>> /\ l[1] # HASH /\ \E p \in DOMAIN l : l[p] = EQ

AssignedKey(text) ==
    LET l == TrimSpace(text)
        p == CHOOSE q \in DOMAIN l : l[q] = EQ /\ \A r \in 1..(q - 1) : l[r] # EQ
    IN SubSeq(l, 1, p - 1)

Assigns(n, key) == IsAssignmentLine(stream[n]) /\ AssignedKey(stream[n]) = key

LastAssigning(key) ==
    CHOOSE n \in DOMAIN stream :
        Assigns(n, key) /\ \A m \in DOMAIN stream : Assigns(m, key) => m <= n

HoldsLastValue(key) ==
    /\ key \in DOMAIN env
    /\ env[key] = LineValue(TrimSpace(stream[LastAssigning(key)]))

C14_LastWriterWins ==
    ScanFinished =>
        \A n \in DOMAIN stream :
            IsAssignmentLine(stream[n]) => HoldsLastValue(AssignedKey(stream[n]))

(* C14 as amended: the same for every assignment line whose key is not     *)
(* empty; a line that starts with "=" stores nothing.                      *)
C14_LastNamedWriterWins ==
    ScanFinished =>
        \A n \in DOMAIN stream :
            IF ~IsAssignmentLine(stream[n]) THEN TRUE
            ELSE IF AssignedKey(stream[n]) # <<>> THEN HoldsLastValue(AssignedKey(stream[n]))
            ELSE <<>> \notin DOMAIN env

C14_Witness ==
    /\ ScanFinished
    /\ ~first.made
    /\ <<"K">> \in DOMAIN env0
    /\ env0[<<"K">>] = <<"z">>
    /\ stream = << <<"K", EQ, "a">>, <<"K", EQ, "b">> >>
    /\ env[<<"K">>] = <<"b">>

-----------------------------------------------------------------------------
(* C15: store frame: no step of a call removes a key from the store, and   *)
(* the only key whose value a step changes or adds is the key of the       *)
(* assignment line that step reads; a blank line, a line that starts with  *)
(* "#", a line without "=" and every step of the field decoder leave the   *)
(* store as it is.                                                         *)
ReadsAssignmentLine == pc = "scan" /\ lines # <<>> /\ IsAssignmentLine(Head(lines))

C15_StoreFrame ==
    [][ /\ DOMAIN env \subseteq DOMAIN env'
        /\ \A k \in DOMAIN env' :
              (k \notin DOMAIN env \/ env'[k] # env[k]) =>
                  ReadsAssignmentLine /\ k = AssignedKey(Head(lines)) ]_vars

C15_Witness ==
    /\ Decoded
    /\ ~first.made
    /\ stream = << <<HASH, "K", EQ, "c">>, <<"J", EQ, SQ, "a", SQ>> >>
    /\ env0 = [x \in {<<"K">>} |-> <<"z">>]
    /\ env = [x \in {<<"K">>, <<"J">>} |-> IF x = <<"K">> THEN <<"z">> ELSE <<"a">>]

-----------------------------------------------------------------------------
(* C16: a field that is not exported is skipped silently: it keeps its     *)
(* zero value and contributes no error, also when its key is in the store  *)
(* with a non-empty value, and also when it declares no key and            *)
(* EnforceStructTags is in effect.                                         *)
C16_UnexportedIsSkipped ==
    \A k \in FieldIdx :
        (Visited(k) /\ ~Settable(k)) =>
            /\ config[k] = ZeroField(k)
            /\ contrib[k] = <<>>
            /\ pc = "done" => ret.config[k] = ZeroField(k)

C16_Witness ==
    /\ Decoded
    /\ NumField(T) = 2
    /\ ops.EnforceStructTags
    /\ ~Settable(1) /\ HasKey(1) /\ Present(1) /\ StoredValue(1) # <<>>
    /\ ~Settable(2) /\ ~HasKey(2)
    /\ ret.err = NilError

(* C17: a settable field that declares no key is never populated from the  *)
(* store; it contributes exactly one ErrMissingStructTag error naming the  *)
(* field when EnforceStructTags is in effect and no error otherwise.       *)
C17_NoKeyNeverPopulated ==
    \A k \in FieldIdx :
        (Visited(k) /\ Settable(k) /\ ~HasKey(k)) =>
            /\ config[k] = ZeroField(k)
            /\ contrib[k] = IF ops.EnforceStructTags
                            THEN <<Wrapped(ErrMissingStructTag, T.fields[k].Name)>>
                            ELSE <<>>

C17_Witness ==
    /\ Decoded
    /\ NumField(T) = 2
    /\ ops.EnforceStructTags
    /\ Settable(1) /\ ~HasKey(1)
    /\ Populatable(2)
    /\ DOMAIN env = {<<"X">>, <<"Y">>}
    /\ Errors(ret.err) = <<Wrapped(ErrMissingStructTag, T.fields[1].Name)>>

(* C18: unless AllowWhitespace is in effect the fetched value, stored or   *)
(* default, is trimmed of surrounding white space before the empty check   *)
(* and the conversion, so a value of white space only counts as empty;     *)
(* with AllowWhitespace the value is used exactly as fetched: a string     *)
(* field receives it with its white space, and a value of white space only *)
(* is not treated as empty.                                                *)
Fetched(k) == IF Present(k) THEN env[KeyOf(k)] ELSE T.fields[k].default

Used(k) == IF ops.AllowWhitespace THEN Fetched(k) ELSE TrimSpace(Fetched(k))

C18_WhitespaceOption ==
    \A k \in FieldIdx :
        (Visited(k) /\ Resolves(k)) =>
            IF Used(k) = <<>>
            THEN /\ config[k] = ZeroField(k)
                 /\ contrib[k] = IF HasModifier(k, "required")
                                 THEN <<Wrapped(ErrMissingRequiredField, KeyOf(k))>>
                                 ELSE <<>>
            ELSE /\ KindOf(k) = "string" => config[k] = Used(k) /\ contrib[k] = <<>>
                 /\ Supported(KindOf(k)) =>
                        config[k] = ConvertValue(KindOf(k), Used(k)) /\ contrib[k] = <<>>
                 /\ Len(contrib[k]) = 1 => contrib[k][1].is = ErrUnsupportedFieldType

C18_Witness ==
    /\ Decoded
    /\ NumField(T) = 2
    /\ ops.AllowWhitespace
    /\ KindOf(1) = "string" /\ Resolves(1) /\ Present(1)
    /\ HasModifier(2, "required") /\ Resolves(2) /\ Present(2)
    /\ env[KeyOf(1)] = <<SP>>
    /\ env[KeyOf(2)] = <<SP>>
    /\ config[1] = <<SP>>
    /\ ret.err = NilError

-----------------------------------------------------------------------------
(* C19: a trailing comment does not change what is stored: for an          *)
(* assignment line followed by one or more spaces, a "#" and comment text, *)
(* the store afterwards is the one the same line without the trailing      *)
(* spaces and the comment gives, for unquoted, single-quoted and           *)
(* double-quoted values; and a "#" that no space precedes stays part of    *)
(* the value.                                                              *)
HasTrailingComment(l) ==
    /\ Len(l) >= 3
    /\ l[Len(l)] = "c" /\ l[Len(l) - 1] = HASH /\ l[Len(l) - 2] = SP
    /\ IsAssignmentLine(TrimRightSpace(SubSeq(l, 1, Len(l) - 2)))

WithoutTrailingComment(l) == TrimRightSpace(SubSeq(l, 1, Len(l) - 2))

NoSpaceNoEscape(v) == \A p \in DOMAIN v : v[p] \notin {SP, BS, SQ, DQ}

OneLineScanned == ScanFinished /\ ~first.made /\ Len(stream) = 1

C19_TrailingCommentIsDropped ==
    OneLineScanned =>
        /\ HasTrailingComment(stream[1]) =>
              env = ScanLine(env0, WithoutTrailingComment(stream[1]))
        /\ \A v \in SeqsUpTo(BodyChars, MaxBody) :
              (stream[1] = <<"K", EQ>> \o v /\ NoSpaceNoEscape(v)) => env[<<"K">>] = v

-----------------------------------------------------------------------------
(* C20: the aggregated error renders as the empty string when it has no    *)
(* entries, as the message of its entry when it has exactly one, and, when *)
(* it has two or more, as "multiple errors:" followed by one line          *)
(* "- <message>" for each entry, in order.                                 *)
RECURSIVE EntryLines(_, _)
EntryLines(list, n) ==
    IF n = 0 THEN <<>>
    ELSE EntryLines(list, n - 1) \o <<NL>> \o <<"-", SP>> \o ErrorText(list[n])

RendersAsClaimed(list) ==
    joinErrorError(list) =
        CASE Len(list) = 0 -> <<>>
          [] Len(list) = 1 -> ErrorText(list[1])
          [] OTHER -> <<"multiple errors:">> \o EntryLines(list, Len(list))

C20_ErrorRendering ==
    /\ (pc \in {"fields", "done"} /\ T.kind = "struct") => RendersAsClaimed(errs)
    /\ (pc = "done" /\ ret.err # NilError /\ ret.err.kind = "joinError") =>
            RendersAsClaimed(Errors(ret.err))

C20_Witness ==
    /\ Decoded
    /\ Errors(ret.err) = <<Wrapped(ErrMissingEnvVar, <<"X">>), Wrapped(ErrMissingEnvVar, <<"Y">>)>>
    /\ joinErrorError(Errors(ret.err)) =
          <<"multiple errors:", NL, "-", SP, "key not present in ENV", ":", SP, "X",
            NL, "-", SP, "key not present in ENV", ":", SP, "Y">>

-----------------------------------------------------------------------------
(* Decimal numerals, compared as texts.                                    *)
StripZeros(d) ==
    LET significant == {p \in DOMAIN d : d[p] # "0"}
    IN IF significant = {} THEN <<>>
       ELSE SubSeq(d, CHOOSE p \in significant : \A q \in significant : p <= q, Len(d))

(* of two numerals of one length, a is the smaller: at the first place     *)
(* where they differ a has the smaller digit                               *)
DigitsLess(a, b) ==
    \E p \in DOMAIN a :
        /\ DigitVal(a[p]) < DigitVal(b[p])
        /\ \A q \in 1..(p - 1) : DigitVal(a[q]) = DigitVal(b[q])

(* the numeral a is at most the numeral b                                  *)
NumeralLeq(a, b) ==
    LET x == StripZeros(a)
        y == StripZeros(b)
    IN IF Len(x) # Len(y) THEN Len(x) < Len(y) ELSE x = y \/ DigitsLess(x, y)

IsNumeral(d) == d # <<>> /\ \A p \in DOMAIN d : d[p] \in Digits

Signed(v) == v # <<>> /\ Head(v) \in {"-", "+"}
Negative(v) == v # <<>> /\ Head(v) = "-"
Magnitude(v) == IF Signed(v) THEN Tail(v) ELSE v

(* the largest magnitude a field of the kind holds, on either side of zero *)
LargestOf(bits, unsigned, negative) ==
    CASE bits = 8 /\ unsigned -> <<"2", "5", "5">>
      [] bits = 8 /\ negative -> <<"1", "2", "8">>
      [] bits = 8 -> <<"1", "2", "7">>
      [] bits = 16 /\ unsigned -> <<"6", "5", "5", "3", "5">>
      [] bits = 16 /\ negative -> <<"3", "2", "7", "6", "8">>
      [] bits = 16 -> <<"3", "2", "7", "6", "7">>
      [] bits = 32 /\ unsigned -> <<"4", "2", "9", "4", "9", "6", "7", "2", "9", "5">>
      [] bits = 32 /\ negative -> <<"2", "1", "4", "7", "4", "8", "3", "6", "4", "8">>
      [] bits = 32 -> <<"2", "1", "4", "7", "4", "8", "3", "6", "4", "7">>
      [] unsigned -> <<"1", "8", "4", "4", "6", "7", "4", "4", "0", "7",
                       "3", "7", "0", "9", "5", "5", "1", "6", "1", "5">>
      [] negative -> <<"9", "2", "2", "3", "3", "7", "2", "0", "3", "6",
                       "8", "5", "4", "7", "7", "5", "8", "0", "8">>
      [] OTHER -> <<"9", "2", "2", "3", "3", "7", "2", "0", "3", "6",
                    "8", "5", "4", "7", "7", "5", "8", "0", "7">>

(* the text v is a base-10 integer of the kind's signedness                *)
IsInteger(kind, v) ==
    IF kind \in UintKinds THEN IsNumeral(v) ELSE IsNumeral(Magnitude(v))

(* the integer v lies in the range of `bits` bits                          *)
Fits(kind, v, bits) ==
    NumeralLeq(Magnitude(v), LargestOf(bits, kind \in UintKinds, Negative(v)))

(* base-10 parsing at 64 bits succeeds                                     *)
Parses(kind, v) == IsInteger(kind, v) /\ Fits(kind, v, 64)

IntegerField(k) ==
    /\ Visited(k) /\ Resolves(k)
    /\ KindOf(k) \in IntKinds \cup UintKinds
    /\ Used(k) # <<>>

(* C21: lenient integer conversion: for a signed or unsigned integer field *)
(* whose non-empty value fails base-10 parsing (text that is no number, a  *)
(* minus sign on an unsigned field, a number outside the 64-bit range),    *)
(* the field is set to zero and no error is added.                         *)
C21_FailedParseGivesZero ==
    \A k \in FieldIdx :
        (IntegerField(k) /\ ~Parses(KindOf(k), Used(k))) =>
            /\ config[k] = ZeroField(k)
            /\ contrib[k] = <<>>

(* C26: integer values are parsed at 64 bits whatever the width of the     *)
(* field: when the value parses but does not fit the field's width (300    *)
(* into an 8-bit field), the field receives the value reduced modulo       *)
(* 2^width, no error is added, and the field differs from the number       *)
(* written in the store.                                                   *)

(* the last digits of a numeral, at most four of them, and the rest        *)
LastGroup(d) == SubSeq(d, IF Len(d) > 4 THEN Len(d) - 3 ELSE 1, Len(d))
BeforeLastGroup(d) == SubSeq(d, 1, Len(d) - Len(LastGroup(d)))

(* the number a numeral of at most four digits writes                      *)
GroupValue(g) ==
    LET digit(k) == IF k <= Len(g) THEN DigitVal(g[Len(g) - k + 1]) ELSE 0
    IN digit(1) + 10 * digit(2) + 100 * digit(3) + 1000 * digit(4)

(* a numeral modulo m, m up to 2^16, one group of digits at a time         *)
RECURSIVE ModSmall(_, _)
ModSmall(d, m) ==
    IF d = <<>> THEN 0
    ELSE (10000 * ModSmall(BeforeLastGroup(d), m) + GroupValue(LastGroup(d))) % m

(* a numeral modulo 2^32, as the pair of its low and high 16 bits          *)
RECURSIVE Mod32(_)
Mod32(d) ==
    IF d = <<>> THEN <<0, 0>>
    ELSE LET r  == Mod32(BeforeLastGroup(d))
             lo == 10000 * r[1] + GroupValue(LastGroup(d))
         IN <<lo % 65536, (10000 * r[2] + lo \div 65536) % 65536>>

(* the integer v modulo 2^bits, as the bit pattern of the field            *)
Reduced(v, bits) ==
    LET d == Magnitude(v)
    IN CASE bits = 8 ->
              <<IF Negative(v) THEN (256 - ModSmall(d, 256)) % 256 ELSE ModSmall(d, 256)>>
         [] bits = 16 ->
              <<IF Negative(v) THEN (65536 - ModSmall(d, 65536)) % 65536 ELSE ModSmall(d, 65536)>>
         [] bits = 32 ->
              LET m == Mod32(d)
              IN IF ~Negative(v) THEN m
                 ELSE <<(65536 - m[1]) % 65536,
                        (65535 - m[2] + (IF m[1] = 0 THEN 1 ELSE 0)) % 65536>>

(* the bit pattern of a field of the kind, extended to 64 bits             *)
Widen(kind, p) ==
    LET fill == IF kind \in IntKinds /\ p[Len(p)] >= (IF BitsOf(kind) = 8 THEN 128 ELSE 32768)
                THEN 65535 ELSE 0
        low  == IF BitsOf(kind) = 8 /\ fill = 65535 THEN <<p[1] + 65280>> ELSE p
    IN low \o [n \in 1..(4 - Len(p)) |-> fill]

Parsed64(kind, v) == IF kind \in UintKinds THEN ParseUint(v) ELSE ParseInt(v)

TooWide(k) ==
    /\ IntegerField(k)
    /\ Parses(KindOf(k), Used(k))
    /\ ~Fits(KindOf(k), Used(k), BitsOf(KindOf(k)))

C26_NarrowFieldTruncates ==
    \A k \in FieldIdx :
        /\ TooWide(k) =>
              /\ config[k] = Reduced(Used(k), BitsOf(KindOf(k)))
              /\ contrib[k] = <<>>
              /\ Widen(KindOf(k), config[k]) # Parsed64(KindOf(k), Used(k))
        /\ (IntegerField(k) /\ Parses(KindOf(k), Used(k)) /\ ~TooWide(k)) =>
              /\ Widen(KindOf(k), config[k]) = Parsed64(KindOf(k), Used(k))
              /\ contrib[k] = <<>>

C26_Witness ==
    /\ Decoded
    /\ NumField(T) = 2
    /\ KindOf(1) = "int8" /\ KindOf(2) = "uint16"
    /\ TooWide(1) /\ TooWide(2)
    /\ Used(1) = <<"7", "0", "0", "0", "0">>
    /\ config[1] = <<112>>
    /\ config[2] = <<4464>>
    /\ ret.err = NilError

-----------------------------------------------------------------------------
(* C22: an empty value is never passed to type conversion: whenever the    *)
(* resolved value of a field is the empty string the field stays at its    *)
(* zero value and the only error it can contribute is                      *)
(* ErrMissingRequiredField, when it is required; a field of an unsupported *)
(* kind with an empty value contributes no ErrUnsupportedFieldType error.  *)
ResolvesEmpty(k) == Visited(k) /\ Resolves(k) /\ ResolvedValue(k) = <<>>

C22_EmptyIsNeverConverted ==
    \A k \in FieldIdx :
        ResolvesEmpty(k) =>
            /\ visited[k] = "empty"
            /\ config[k] = ZeroField(k)
            /\ \A n \in DOMAIN contrib[k] : contrib[k][n].is = ErrMissingRequiredField
            /\ Len(contrib[k]) = (IF HasModifier(k, "required") THEN 1 ELSE 0)

C22_Witness ==
    /\ Decoded
    /\ NumField(T) = 2
    /\ ResolvesEmpty(1) /\ ~Supported(KindOf(1))
    /\ ResolvesEmpty(2) /\ HasModifier(2, "required")
    /\ env[KeyOf(1)] = <<SP>>
    /\ Errors(ret.err) = <<Wrapped(ErrMissingRequiredField, KeyOf(2))>>

-----------------------------------------------------------------------------
(* C25: FromReader stages all pairs of the stream into the store before it *)
(* looks at the target type: when the call returns ErrConfigMustBeStruct   *)
(* the store has been updated with every assignment line of the stream.    *)
RejectedAfterRead ==
    /\ pc = "done"
    /\ ret.err = Sentinel(ErrConfigMustBeStruct)
    /\ method = "FromReader" \/ fileOK

C25_StagedBeforeTypeCheck ==
    RejectedAfterRead =>
        \A n \in DOMAIN stream :
            IsAssignmentLine(stream[n]) => HoldsLastValue(AssignedKey(stream[n]))

(* C25 as amended: the same for every assignment line whose key is not     *)
(* empty, and the store is the one the same stream leaves when T is a      *)
(* struct.                                                                 *)
C25_NamedPairsStagedBeforeTypeCheck ==
    RejectedAfterRead =>
        /\ \A n \in DOMAIN stream :
              (IsAssignmentLine(stream[n]) /\ AssignedKey(stream[n]) # <<>>) =>
                  HoldsLastValue(AssignedKey(stream[n]))
        /\ env = FromReader(env0, stream, <<>>, KJConfig).env

C25_Witness ==
    /\ RejectedAfterRead
    /\ T.kind = "int"
    /\ stream = << <<"K", EQ, "a">>, <<"J", EQ, SQ, "a", SQ>> >>
    /\ env0 = [x \in {<<"K">>} |-> <<"z">>]
    /\ env = [x \in {<<"K">>, <<"J">>} |-> <<"a">>]

-----------------------------------------------------------------------------
(* C23: per-field state machine: during one decode the fields are visited  *)
(* once each, in declaration order; each field makes exactly one           *)
(* transition, from Unvisited to one of Skipped, Defaulted, Resolved and   *)
(* Errored, and never changes state afterwards; and the decode terminates  *)
(* with no field left Unvisited.                                           *)
FieldState(k) ==
    CASE visited[k] = "Unvisited" -> "Unvisited"
      [] contrib[k] # <<>> -> "Errored"
      [] visited[k] = "set" -> "Resolved"
      [] visited[k] = "setDefault" -> "Defaulted"
      [] OTHER -> "Skipped"

InLoop == pc = "fields" /\ T.kind = "struct"

(* the call is reading its stream or decoding                              *)
Underway == pc \in {"scan", "fromEnv", "fields"}

(* what each state says about the field                                    *)
StateIsSound(k) ==
    CASE FieldState(k) = "Unvisited" -> config[k] = ZeroField(k) /\ contrib[k] = <<>>
      [] FieldState(k) = "Errored" -> config[k] = ZeroField(k) /\ Len(contrib[k]) = 1
      [] FieldState(k) = "Resolved" -> Resolves(k) /\ Present(k) /\ ResolvedValue(k) # <<>>
      [] FieldState(k) = "Defaulted" -> Resolves(k) /\ ~Present(k) /\ ResolvedValue(k) # <<>>
      [] OTHER -> config[k] = ZeroField(k)

(* the fields visited so far are the first ones, without gaps              *)
VisitedInOrder ==
    (pc \in {"fields", "done"} /\ visited # <<>>) =>
        \A k \in FieldIdx :
            /\ (FieldState(k) # "Unvisited") <=> (k < i)
            /\ StateIsSound(k)

(* a step of the loop moves exactly the next field out of Unvisited, and   *)
(* no step changes a field that has left it                                *)
OneTransitionEach ==
    (InLoop /\ visited' # <<>>) =>
        \A k \in FieldIdx :
            IF visited[k] = "Unvisited"
            THEN (visited'[k] # "Unvisited") <=> (k = i /\ i' = i + 1)
            ELSE /\ visited'[k] = visited[k]
                 /\ config'[k] = config[k]
                 /\ contrib'[k] = contrib[k]

AllVisited == Decoded /\ \A k \in FieldIdx : FieldState(k) \in {"Skipped", "Defaulted", "Resolved", "Errored"}

C23_FieldStateMachine ==
    /\ []VisitedInOrder
    /\ [][OneTransitionEach]_progress
    /\ Underway ~> AllVisited

C23_Witness ==
    /\ AllVisited
    /\ NumField(T) = 2
    /\ FieldState(1) = "Defaulted"
    /\ FieldState(2) = "Errored"

-----------------------------------------------------------------------------
(* C27: a failure while reading the stream (a read error, or a line longer *)
(* than the scanner's buffer) is never reported: parsing stops at that     *)
(* point, the pairs of the earlier lines stay in the store, the pairs of   *)
(* that line and of all later lines are not stored, and decoding then      *)
(* proceeds and returns only field errors.                                 *)
ReadFails == fault.kind # "none"

(* the lines before the one at which the reader fails                      *)
EarlierLines == SubSeq(stream, 1, fault.line - 1)

IsFieldError(err) ==
    /\ err.kind = "wrapped"
    /\ err.is \in {ErrMissingStructTag, ErrMissingEnvVar, ErrMissingRequiredField,
                   ErrUnsupportedFieldType}

OnlyFieldErrors(err) ==
    \/ err = NilError
    \/ /\ err.kind = "joinError"
       /\ \A k \in 1..Len(err.errs) : IsFieldError(err.errs[k])

C27_ReadFailureIsSilent ==
    ReadFails =>
        /\ pc = "scan" =>
                \E k \in 0..Len(EarlierLines) : env = ScanAll(env0, SubSeq(stream, 1, k))
        /\ ScanFinished => env = ScanAll(env0, EarlierLines)
        /\ pc = "done" =>
                /\ Decoded
                /\ OnlyFieldErrors(ret.err)
                /\ ret = fromEnv(env, NoOptions, T)

-----------------------------------------------------------------------------
(* C24: isolation holds only under serialization.  When two FromReader     *)
(* calls whose streams assign different values to the same key run one     *)
(* after the other, each returned record holds the value of its own        *)
(* stream; when their parse and decode steps interleave, no lock keeps a   *)
(* call from taking its next step, and a call can return the value the     *)
(* other call's stream wrote.                                              *)
EmptyEnv == [x \in {} |-> <<>>]

(* the value the stream of call p assigns to K                             *)
OwnValue(p) == ScanAll(EmptyEnv, calls[p].stream)[<<"K">>]

(* the field of the returned record that reads K                           *)
ReturnedValue(p) == calls[p].ret.config[1]

Returned(p) == calls[p].pc = "done"

Serialized(p) == Returned(p) /\ calls[p].alone

C24_IsolationOnlyWhenSerialized ==
    /\ OwnValue(1) # OwnValue(2)
    /\ \A p \in Callers :
        /\ Serialized(p) => (ReturnedValue(p) = OwnValue(p) /\ calls[p].ret.err = NilError)
        /\ Running(p) => ENABLED RaceStep(p)

C24_Witness ==
    /\ Returned(1)
    /\ Returned(2)
    /\ ~calls[1].alone
    /\ ReturnedValue(1) = OwnValue(2)
    /\ ReturnedValue(2) = OwnValue(2)

====
